---- MODULE Spec2Model ----
(***************************************************************************)
(* Model of find.py, the FindPeople scraper: the record extractor and page *)
(* parser (parse_record_*, parse_emails), the query client (do_request),   *)
(* the name tokenization and the paced driver loop of main().              *)
(*                                                                         *)
(* Python strings are sequences of one-character strings.  A Python value  *)
(* that a lookup can return (None, a text node, an element) is a record    *)
(* [kind, text, contents].  A call that can raise returns a record with an *)
(* exc field naming the exception ("none" when it returns normally).       *)
(***************************************************************************)
EXTENDS Integers, Sequences, FiniteSets, TLC

VARIABLES
    mode,        \* which entry point this behaviour exercises
    pc,          \* position in the entry point
    doc,         \* parse_emails: the document (its 'record-data' rows, in order)
    parsed,      \* parse_emails: the outcome [exc, info]
    req,         \* do_request: the call's arguments and the server's answer
    posts,       \* every form POSTed so far, in order
    reqres,      \* do_request: the outcome [exc, content]
    args,        \* main: the parsed command line
    names,       \* main: the resolved (firstname, lastname) list
    idx,         \* main: index of the name the loop is at (1-based)
    start_time,  \* main: the rolling baseline timestamp
    now,         \* the wall clock, time.time()
    starts,      \* history: the value of start_time recorded for each query
    statuses,    \* history: the status code of each response received
    waits,       \* history: time.sleep() calls made
    parses,      \* history: number of parse_emails calls made by main
    written,     \* history: per parsed response, the write() calls it led to
    data,        \* main: the body of the last response
    output,      \* args.output: one entry per write() call
    stderr,      \* sys.stderr: one entry per write() call
    exc          \* the exception that ended the run ("none" if none)

vars == <<mode, pc, doc, parsed, req, posts, reqres, args, names, idx,
          start_time, now, starts, statuses, waits, parses, written, data,
          output, stderr, exc>>

-----------------------------------------------------------------------------
(* Bounds *)

MaxLen == 2        \* length of the generated text strings
MaxRows == 2       \* rows of a generated document
MaxLines == 2      \* lines of a generated batch file
MaxRate == 2       \* largest --ratelimit tried
MaxStep == 1       \* longest time one step (a request, a parse) may take
MaxTime == 7       \* the clock stops the model here

RATE_LIMIT_DELAY == 5

ALL == "all"
STUDENT == "student"
EMPLOYEE == "employee"

-----------------------------------------------------------------------------
(* Python strings *)

SeqsUpTo(S, n) == UNION {[1..k -> S] : k \in 0..n}

IsSpace(c) == c \in {" ", "\n"}

RECURSIVE LStrip(_)
LStrip(s) ==
    IF s # <<>> /\ IsSpace(Head(s)) THEN LStrip(Tail(s)) ELSE s

RECURSIVE RStrip(_)
RStrip(s) ==
    IF s # <<>> /\ IsSpace(s[Len(s)]) THEN RStrip(SubSeq(s, 1, Len(s) - 1)) ELSE s

\* str.strip()
Strip(s) == RStrip(LStrip(s))

\* str.split(): the maximal runs of non-whitespace characters, in order
RECURSIVE SplitFrom(_, _, _)
SplitFrom(s, cur, acc) ==
    IF s = <<>>
    THEN IF cur = <<>> THEN acc ELSE Append(acc, cur)
    ELSE IF IsSpace(Head(s))
         THEN SplitFrom(Tail(s), <<>>, IF cur = <<>> THEN acc ELSE Append(acc, cur))
         ELSE SplitFrom(Tail(s), Append(cur, Head(s)), acc)

Split(s) == SplitFrom(s, <<>>, <<>>)

\* index of the first / last occurrence of character c in s, 0 if none
FirstIndex(s, c) ==
    IF \E i \in 1..Len(s) : s[i] = c
    THEN CHOOSE i \in 1..Len(s) : s[i] = c /\ \A j \in 1..(i - 1) : s[j] # c
    ELSE 0

LastIndex(s, c) ==
    IF \E i \in 1..Len(s) : s[i] = c
    THEN CHOOSE i \in 1..Len(s) : s[i] = c /\ \A j \in (i + 1)..Len(s) : s[j] # c
    ELSE 0

\* s.rpartition(c)[0]: the text before the LAST c
PartitionHeadLast(s, c) ==
    IF LastIndex(s, c) = 0 THEN <<>> ELSE SubSeq(s, 1, LastIndex(s, c) - 1)

\* s.partition(c)[0]: the text before the first c, all of s if there is none
PartitionHead(s, c) ==
    IF FirstIndex(s, c) = 0 THEN s ELSE SubSeq(s, 1, FirstIndex(s, c) - 1)

-----------------------------------------------------------------------------
(* The document tree, as BeautifulSoup hands it to the extractor *)

PyNone == [kind |-> "none", text |-> <<>>, contents |-> <<>>]
Text(s) == [kind |-> "text", text |-> s, contents |-> <<>>]
Tag(c) == [kind |-> "tag", text |-> <<>>, contents |-> c]

Returns(v) == [exc |-> "none", val |-> v]
Raises(e) == [exc |-> e, val |-> PyNone]

\* bool(v): None is false, a string is true when non-empty, a Tag is always true
Truthy(v) ==
    CASE v.kind = "none" -> FALSE
      [] v.kind = "text" -> v.text # <<>>
      [] OTHER -> TRUE

\* A cell of a row is what find_all(tag, class) finds in it: nothing
\* (present = FALSE) or a first matching element with its child nodes.
NoCell == [present |-> FALSE, contents |-> <<>>]
Cell(c) == [present |-> TRUE, contents |-> c]

\* The name cell holds (or not) a 'results-name' span with its child nodes.
NoNameCell == [present |-> FALSE, span |-> FALSE, contents |-> <<>>]
NameCell(hasSpan, c) == [present |-> TRUE, span |-> hasSpan, contents |-> c]

parse_record_email(record) ==
    LET cell == record.email IN
    IF ~cell.present THEN Returns(PyNone)
    ELSE IF cell.contents = <<>> THEN Returns(PyNone)
    ELSE LET link_tag == cell.contents[1] IN
         \* a NavigableString has no attribute 'contents'
         IF link_tag.kind = "text" THEN Raises("AttributeError")
         ELSE IF link_tag.contents = <<>> THEN Returns(PyNone)
         ELSE Returns(link_tag.contents[1])

parse_record_name(record) ==
    LET cell == record.name IN
    IF ~cell.present THEN Returns(PyNone)
    ELSE IF ~cell.span THEN Returns(PyNone)
    ELSE IF cell.contents = <<>> THEN Returns(PyNone)
    ELSE LET name == cell.contents[1] IN
         \* Tag.strip is find("strip"), which is None: calling it is a TypeError
         IF name.kind = "tag" THEN Raises("TypeError")
         ELSE Returns(Text(Strip(name.text)))

parse_record_major(record) ==
    LET cell == record.major IN
    IF ~cell.present THEN Returns(PyNone)
    ELSE IF cell.contents = <<>> THEN Returns(PyNone)
    ELSE Returns(cell.contents[1])

parse_record_org(record) ==
    LET cell == record.org IN
    IF ~cell.present THEN Returns(PyNone)
    ELSE IF cell.contents = <<>> THEN Returns(PyNone)
    ELSE Returns(cell.contents[1])

ContactInfo(name, email, dotname, major, org) ==
    [name |-> name, email |-> email, dotname |-> dotname, major |-> major, org |-> org]

\* email.partition("@")[0]
DotName(email) == Text(PartitionHead(email.text, "@"))

\* One iteration of the loop of parse_emails: the four lookups in order, then
\* the test of email.  out is <<>> or the one ContactInfo appended.
ParseRecord(record) ==
    LET email == parse_record_email(record)
        name == parse_record_name(record)
        major == parse_record_major(record)
        org == parse_record_org(record)
    IN  IF email.exc # "none" THEN [exc |-> email.exc, out |-> <<>>]
        ELSE IF name.exc # "none" THEN [exc |-> name.exc, out |-> <<>>]
        ELSE IF major.exc # "none" THEN [exc |-> major.exc, out |-> <<>>]
        ELSE IF org.exc # "none" THEN [exc |-> org.exc, out |-> <<>>]
        ELSE IF ~Truthy(email.val) THEN [exc |-> "none", out |-> <<>>]
        \* Tag.partition is find("partition"), which is None
        ELSE IF email.val.kind = "tag" THEN [exc |-> "TypeError", out |-> <<>>]
        ELSE [exc |-> "none",
              out |-> <<ContactInfo(name.val, email.val, DotName(email.val),
                                    major.val, org.val)>>]

RECURSIVE ParseFrom(_, _, _)
ParseFrom(rows, i, info) ==
    IF i > Len(rows) THEN [exc |-> "none", info |-> info]
    ELSE LET r == ParseRecord(rows[i]) IN
         IF r.exc # "none" THEN [exc |-> r.exc, info |-> <<>>]
         ELSE ParseFrom(rows, i + 1, info \o r.out)

parse_emails(response) == ParseFrom(response, 1, <<>>)

-----------------------------------------------------------------------------
(* Documents given to parse_emails *)

EmailChars == {"a", "@"}
NameChars == {"a", " "}
FieldChars == {"a"}

NonEmpty(S, n) == SeqsUpTo(S, n) \ {<<>>}

EmailTexts == NonEmpty(EmailChars, MaxLen)
NameTexts == NonEmpty(NameChars, MaxLen)
FieldTexts == NonEmpty(FieldChars, MaxLen)

\* the email cell: absent, empty, starting with a text node (alone or before
\* the link), or starting with an element that is empty, holds a text, or
\* holds a nested element
EmailCells ==
    {NoCell, Cell(<<>>), Cell(<<Text(<<" ">>)>>),
     Cell(<<Text(<<"\n">>), Tag(<<Text(<<"a", "@">>)>>)>>),
     Cell(<<Tag(<<>>)>>), Cell(<<Tag(<<Tag(<<>>)>>)>>)}
    \cup {Cell(<<Tag(<<Text(e)>>)>>) : e \in EmailTexts}

NameCells ==
    {NoNameCell, NameCell(FALSE, <<>>), NameCell(TRUE, <<>>),
     NameCell(TRUE, <<Tag(<<>>)>>)}
    \cup {NameCell(TRUE, <<Text(n)>>) : n \in NameTexts}

FieldCells ==
    {NoCell, Cell(<<>>), Cell(<<Tag(<<>>)>>)}
    \cup {Cell(<<Text(t)>>) : t \in FieldTexts}

Row(e, n, m, o) == [email |-> e, name |-> n, major |-> m, org |-> o]

\* every combination of cells
AllRows == {Row(e, n, m, o) : e \in EmailCells, n \in NameCells,
                              m \in FieldCells, o \in FieldCells}

\* rows of the longer documents: every email cell, beside three settings of
\* the other cells
Sides ==
    {<<NoNameCell, NoCell, NoCell>>,
     <<NameCell(TRUE, <<Text(<<" ", "a">>)>>), Cell(<<Text(<<"a">>)>>), NoCell>>,
     <<NameCell(TRUE, <<>>), Cell(<<>>), Cell(<<Text(<<"a">>)>>)>>}

DocRows == {Row(e, s[1], s[2], s[3]) : e \in EmailCells, s \in Sides}

Documents == {<<r>> : r \in AllRows} \cup SeqsUpTo(DocRows, MaxRows)

NoParse == [exc |-> "none", info |-> <<>>]
NoReq == [firstname |-> <<>>, lastname |-> <<>>, dot_name |-> <<>>,
          category |-> ALL, status |-> 200, body |-> <<>>]
NoReqRes == [exc |-> "none", content |-> <<>>]
NoArgs == [name |-> [given |-> FALSE, text |-> <<>>], type |-> ALL,
           batch |-> [given |-> FALSE, lines |-> <<>>],
           ratelimit |-> 0, file |-> [given |-> FALSE, doc |-> <<>>]]

\* the variables of main, at rest
MainIdle ==
    /\ args = NoArgs
    /\ names = <<>>
    /\ idx = 1
    /\ start_time = 0
    /\ now = 0
    /\ starts = <<>>
    /\ statuses = <<>>
    /\ waits = <<>>
    /\ parses = 0
    /\ written = <<>>
    /\ data = <<>>
    /\ output = <<>>
    /\ stderr = <<>>
    /\ exc = "none"

mainVars == <<args, names, idx, start_time, now, starts, statuses, waits,
              parses, written, data, output, stderr, exc>>

-----------------------------------------------------------------------------
(* SpecParse: parse_emails applied to every generated document *)

InitParse ==
    /\ mode = "parse"
    /\ pc = "call"
    /\ doc \in Documents
    /\ parsed = NoParse
    /\ req = NoReq
    /\ posts = <<>>
    /\ reqres = NoReqRes
    /\ MainIdle

ParseCall ==
    /\ mode = "parse"
    /\ pc = "call"
    /\ parsed' = parse_emails(doc)
    /\ pc' = "done"
    /\ UNCHANGED <<mode, doc, req, posts, reqres>>
    /\ UNCHANGED mainVars

NextParse == ParseCall

SpecParse == InitParse /\ [][NextParse]_vars

-----------------------------------------------------------------------------
(* Claims about parse_emails, checked under SpecParse *)

ParseDone == mode = "parse" /\ pc = "done"

\* the email cell is absent, or has no link element as its first content
\* (it is empty or starts with a text node), or its link is empty
MissingEmail(row) ==
    \/ ~row.email.present
    \/ row.email.contents = <<>>
    \/ row.email.contents[1].kind = "text"
    \/ row.email.contents[1].contents = <<>>

\* the email cell starts with a link whose first content is a text
HasEmailText(row) ==
    /\ row.email.present
    /\ row.email.contents # <<>>
    /\ row.email.contents[1].kind = "tag"
    /\ row.email.contents[1].contents # <<>>
    /\ row.email.contents[1].contents[1].kind = "text"

EmailsOf(rows) ==
    LET kept == SelectSeq(rows, HasEmailText)
    IN  [i \in 1..Len(kept) |-> kept[i].email.contents[1].contents[1]]

\* C1: parse_emails drops a row without an email instead of failing.  For a
\* document whose rows each either lack an email (cell absent, cell empty,
\* cell starting with a text node, link empty) or have a link with a text,
\* and whose name cells are well formed, parse_emails returns normally and
\* emits exactly the rows that have an email, in order.
C1_DropsRowsWithoutEmail ==
    (/\ ParseDone
     /\ \A i \in 1..Len(doc) :
            /\ MissingEmail(doc[i]) \/ HasEmailText(doc[i])
            /\ parse_record_name(doc[i]).exc = "none")
    => /\ parsed.exc = "none"
       /\ [i \in 1..Len(parsed.info) |-> parsed.info[i].email] = EmailsOf(doc)

IsPrefixUpToAt(d, e) ==
    /\ Len(d) <= Len(e)
    /\ SubSeq(e, 1, Len(d)) = d
    /\ \A i \in 1..Len(d) : d[i] # "@"
    /\ Len(d) = Len(e) \/ e[Len(d) + 1] = "@"

\* C2: every ContactInfo returned by parse_emails has a non-empty email, and
\* its dotname is the prefix of the email up to, not including, the first '@'
\* (the whole email when it holds no '@').
C2_EmailAndDotname ==
    (ParseDone /\ parsed.exc = "none")
    => \A i \in 1..Len(parsed.info) :
           /\ parsed.info[i].email.kind = "text"
           /\ parsed.info[i].email.text # <<>>
           /\ parsed.info[i].dotname.kind = "text"
           /\ IsPrefixUpToAt(parsed.info[i].dotname.text, parsed.info[i].email.text)

\* a returned list with an email holding an '@' after a non-empty dotname, and
\* one holding no '@' at all
C2_Witness ==
    /\ ParseDone
    /\ parsed.exc = "none"
    /\ Len(parsed.info) = 2
    /\ FirstIndex(parsed.info[1].email.text, "@") > 1
    /\ FirstIndex(parsed.info[2].email.text, "@") = 0

\* C10: the name, major and org lookups never raise, and the value each
\* returns for a row is the same whatever the other cells of the row hold.
C10_LookupsNeverRaise ==
    ParseDone
    => \A i \in 1..Len(doc) :
           /\ parse_record_name(doc[i]).exc = "none"
           /\ parse_record_major(doc[i]).exc = "none"
           /\ parse_record_org(doc[i]).exc = "none"
           /\ \A e \in EmailCells, f \in FieldCells, g \in FieldCells :
                  /\ parse_record_name(Row(e, doc[i].name, f, g))
                        = parse_record_name(doc[i])
                  /\ parse_record_major(Row(e, NoNameCell, doc[i].major, g))
                        = parse_record_major(doc[i])
                  /\ parse_record_org(Row(e, NoNameCell, f, doc[i].org))
                        = parse_record_org(doc[i])

-----------------------------------------------------------------------------
(* The query client *)

Categories == {ALL, STUDENT, EMPLOYEE}

Form(firstname, lastname, dot_name, category) ==
    [filter |-> category, firstname |-> firstname, lastname |-> lastname,
     name_n |-> dot_name]

\* the response is refused
BadStatusFrom400(status) == status >= 400

BadStatus(status) == status # 200

\* do_request with the category validated only after the POST was made
do_request_PostFirst(firstname, lastname, dot_name, category, resp) ==
    LET form == Form(firstname, lastname, dot_name, category) IN
    IF category \notin Categories
    THEN [exc |-> "InvalidRequest", posted |-> <<form>>, content |-> <<>>]
    ELSE IF BadStatus(resp.status)
    THEN [exc |-> "RequestFailure", posted |-> <<form>>, content |-> <<>>]
    ELSE [exc |-> "none", posted |-> <<form>>, content |-> resp.body]

\* do_request(firstname, lastname, dot_name, category); resp is what the
\* server answers to the POST, if one is made.  posted is what was sent.
do_request(firstname, lastname, dot_name, category, resp) ==
    IF category \notin Categories
    THEN [exc |-> "InvalidRequest", posted |-> <<>>, content |-> <<>>]
    ELSE LET form == Form(firstname, lastname, dot_name, category) IN
         IF BadStatus(resp.status)
         THEN [exc |-> "RequestFailure", posted |-> <<form>>, content |-> <<>>]
         ELSE [exc |-> "none", posted |-> <<form>>, content |-> resp.body]

Statuses == {200, 204, 404, 500}

GoodRow(e) ==
    Row(Cell(<<Tag(<<Text(e)>>)>>), NameCell(TRUE, <<Text(<<" ", "a">>)>>),
        Cell(<<Text(<<"a">>)>>), NoCell)

\* response bodies: no row; a row with an email; a row with an email after a
\* row without; a row whose email cell starts with a text node
Bodies ==
    {<<>>,
     <<GoodRow(<<"a", "@">>)>>,
     <<Row(NoCell, NoNameCell, NoCell, NoCell), GoodRow(<<"a">>)>>,
     <<Row(Cell(<<Text(<<"\n">>), Tag(<<Text(<<"a", "@">>)>>)>>),
           NoNameCell, NoCell, NoCell)>>}

ReqStrings == {<<>>, <<"j">>}

-----------------------------------------------------------------------------
(* SpecReq: do_request applied to every generated call *)

InitReq ==
    /\ mode = "req"
    /\ pc = "call"
    /\ doc = <<>>
    /\ parsed = NoParse
    /\ req \in [firstname : ReqStrings, lastname : ReqStrings, dot_name : ReqStrings,
                category : Categories \cup {"invalid", ""},
                status : Statuses, body : Bodies]
    /\ posts = <<>>
    /\ reqres = NoReqRes
    /\ MainIdle

RequestCall ==
    /\ mode = "req"
    /\ pc = "call"
    /\ LET r == do_request(req.firstname, req.lastname, req.dot_name, req.category,
                           [status |-> req.status, body |-> req.body])
       IN  /\ posts' = posts \o r.posted
           /\ reqres' = [exc |-> r.exc, content |-> r.content]
    /\ pc' = "done"
    /\ UNCHANGED <<mode, doc, parsed, req>>
    /\ UNCHANGED mainVars

NextReq == RequestCall

SpecReq == InitReq /\ [][NextReq]_vars

\* C7: do_request with a category outside {all, student, employee} raises
\* InvalidRequest and sends nothing; with a category inside the set it sends
\* exactly one POST.
C7_CategoryCheckedBeforePost ==
    (mode = "req" /\ pc = "done")
    => /\ req.category \notin {"all", "student", "employee"}
            => reqres.exc = "InvalidRequest" /\ posts = <<>>
       /\ req.category \in {"all", "student", "employee"}
            => Len(posts) = 1 /\ reqres.exc # "InvalidRequest"

C7_Witness ==
    /\ mode = "req"
    /\ pc = "done"
    /\ req.category = "invalid"
    /\ reqres.exc = "InvalidRequest"

-----------------------------------------------------------------------------
(* Name tokenization, lines 168-184 of main *)

\* --name and --batch as argparse leaves them: not given (None), or a string /
\* the lines of the file, each line as iteration over the file yields it
NoName == [given |-> FALSE, text |-> <<>>]
Name(s) == [given |-> TRUE, text |-> s]
NoBatch == [given |-> FALSE, lines |-> <<>>]
Batch(ls) == [given |-> TRUE, lines |-> ls]

Pair(first, last) == <<first, last>>

\* lines 170-176: the pair of --name
NamePairs(name) ==
    IF ~(name.given /\ name.text # <<>>) THEN [exc |-> "none", names |-> <<>>]
    ELSE LET parts == Split(name.text) IN
         IF Len(parts) = 1 THEN [exc |-> "none", names |-> <<Pair(<<>>, parts[1])>>]
         \* parts[0] of an empty list
         ELSE IF Len(parts) = 0 THEN [exc |-> "IndexError", names |-> <<>>]
         ELSE [exc |-> "none", names |-> <<Pair(parts[1], parts[Len(parts)])>>]

\* lines 180-184: the pair of one batch line, if any
LinePairs(line) ==
    LET parts == Split(Strip(line)) IN
    IF Len(parts) = 1 THEN <<Pair(<<>>, parts[1])>>
    ELSE IF Len(parts) > 1 THEN <<Pair(parts[1], parts[Len(parts)])>>
    ELSE <<>>

RECURSIVE BatchPairs(_)
BatchPairs(lines) ==
    IF lines = <<>> THEN <<>> ELSE LinePairs(Head(lines)) \o BatchPairs(Tail(lines))

\* lines 168-184
ResolveNames(name, batch) ==
    LET n == NamePairs(name) IN
    IF n.exc # "none" THEN n
    ELSE [exc |-> "none",
          names |-> n.names \o (IF batch.given THEN BatchPairs(batch.lines) ELSE <<>>)]

MaxNameLen == 5    \* length of the generated --name values

TokenChars == {"j", "m", "d", " "}

BatchLines ==
    {<<"\n">>, <<" ", "\n">>, <<"d", "\n">>, <<"j", " ", "d", "\n">>,
     <<" ", "j", " ", "m", " ", " ", "d", " ", "\n">>, <<"m">>}

NameSamples ==
    {NoName, Name(<<>>), Name(<<" ">>), Name(<<"d">>), Name(<<"j", " ", "d">>)}

-----------------------------------------------------------------------------
(* SpecNames: the tokenization applied to every generated --name and batch *)

InitNames ==
    /\ mode = "names"
    /\ pc = "call"
    /\ doc = <<>>
    /\ parsed = NoParse
    /\ req = NoReq
    /\ posts = <<>>
    /\ reqres = NoReqRes
    /\ \E n \in {NoName} \cup {Name(t) : t \in SeqsUpTo(TokenChars, MaxNameLen)},
          b \in {NoBatch} \cup {Batch(ls) : ls \in SeqsUpTo(BatchLines, MaxLines)} :
            /\ n \in NameSamples \/ b = NoBatch
            /\ args = [NoArgs EXCEPT !.name = n, !.batch = b]
    /\ names = <<>>
    /\ idx = 1
    /\ start_time = 0
    /\ now = 0
    /\ starts = <<>>
    /\ statuses = <<>>
    /\ waits = <<>>
    /\ parses = 0
    /\ written = <<>>
    /\ data = <<>>
    /\ output = <<>>
    /\ stderr = <<>>
    /\ exc = "none"

ResolveCall ==
    /\ mode = "names"
    /\ pc = "call"
    /\ LET r == ResolveNames(args.name, args.batch)
       IN  /\ names' = r.names
           /\ exc' = r.exc
    /\ pc' = "done"
    /\ UNCHANGED <<mode, doc, parsed, req, posts, reqres, args, idx, start_time,
                   now, starts, statuses, waits, parses, written, data, output,
                   stderr>>

NextNames == ResolveCall

SpecNames == InitNames /\ [][NextNames]_vars

\* the pair the stated rule gives for one value: none for no token, ("", t)
\* for one token t, (first, last) for two or more
RulePairs(s) ==
    LET parts == Split(s) IN
    IF Len(parts) = 0 THEN <<>>
    ELSE IF Len(parts) = 1 THEN <<Pair(<<>>, parts[1])>>
    ELSE <<Pair(parts[1], parts[Len(parts)])>>

RECURSIVE RuleBatch(_)
RuleBatch(lines) ==
    IF lines = <<>> THEN <<>> ELSE RulePairs(Head(lines)) \o RuleBatch(Tail(lines))

\* C9: --name and every batch line are tokenized by the same rule (one token
\* t gives ("", t), two or more give (first, last), none gives no pair and no
\* error), and the resolved list is the --name pair, then the batch pairs in
\* file order.
C9_Tokenization ==
    (mode = "names" /\ pc = "done")
    => /\ exc = "none"
       /\ names = (IF args.name.given THEN RulePairs(args.name.text) ELSE <<>>)
                  \o (IF args.batch.given THEN RuleBatch(args.batch.lines) ELSE <<>>)

-----------------------------------------------------------------------------
(* Output and diagnostics.  A written text is a sequence of pieces, each a  *)
(* literal of the format string or one character of a formatted value.      *)

\* err(msg): what is written to sys.stderr
err(msg) ==
    IF msg # <<>> /\ msg[Len(msg)] # "\n" THEN Append(msg, "\n") ELSE msg

\* "{}".format(v)
Str(v) ==
    CASE v.kind = "none" -> <<"None">>
      [] v.kind = "text" -> v.text
      [] OTHER -> <<"<tag>">>

contact_to_str(contact) ==
    Str(contact.name) \o <<" \n\temail: ">> \o Str(contact.email)
    \o (IF Truthy(contact.major) THEN <<"\n\tmajor: ">> \o Str(contact.major) ELSE <<>>)
    \o (IF Truthy(contact.org) THEN <<"\n\torg: ">> \o Str(contact.org) ELSE <<>>)

\* the write() calls of 'for i in info': the record, then a newline
RECURSIVE Writes(_)
Writes(info) ==
    IF info = <<>> THEN <<>>
    ELSE <<contact_to_str(Head(info)), <<"\n">>>> \o Writes(Tail(info))

\* "{}".format(name) of a (firstname, lastname) tuple
Repr(name) == <<"('">> \o name[1] \o <<"', '">> \o name[2] \o <<"')">>

\* lines 164-165 with the test inverted
OfflineDiagIfFound(info) ==
    IF info # <<>> THEN <<err(<<"Could not find records in input file">>)>> ELSE <<>>

\* lines 164-165: the writes to stderr after an offline parse
OfflineDiag(info) ==
    IF info = <<>> THEN <<err(<<"Could not find records in input file">>)>> ELSE <<>>

\* lines 202-203
NameDiag(info, name) ==
    IF info = <<>>
    THEN <<err(<<"Failed to find record for name: ">> \o Repr(name))>>
    ELSE <<>>

\* lines 188-189
NoNamesDiag(ns) ==
    IF ns = <<>>
    THEN <<err(<<"provide name with '-b' or '-n' option. See help for details">>)>>
    ELSE <<>>

\* line 192 without the rate limit
DelayNoRate(start, ratelimit, t) == start - t

\* line 192: delay = start_time + args.ratelimit - time.time()
Delay(start, ratelimit, t) == start + ratelimit - t

-----------------------------------------------------------------------------
(* Spec: main() *)

RateLimits == (-1..MaxRate) \cup {RATE_LIMIT_DELAY}

MainNames == {NoName, Name(<<" ">>), Name(<<"d">>), Name(<<"j", " ", "m", " ", "d">>)}

MainBatches ==
    {NoBatch, Batch(<<<<"\n">>, <<"j", " ", "d", "\n">>>>),
     Batch(<<<<"d", "\n">>, <<"m">>>>)}

NoFile == [given |-> FALSE, doc |-> <<>>]
File(d) == [given |-> TRUE, doc |-> d]

Init ==
    /\ mode = "main"
    /\ pc = "start"
    /\ doc = <<>>
    /\ parsed = NoParse
    /\ req = NoReq
    /\ posts = <<>>
    /\ reqres = NoReqRes
    /\ args \in [name : MainNames, type : Categories, batch : MainBatches,
                 ratelimit : RateLimits, file : {NoFile} \cup {File(d) : d \in Bodies}]
    /\ names = <<>>
    /\ idx = 1
    /\ start_time = 0
    /\ now = 0
    /\ starts = <<>>
    /\ statuses = <<>>
    /\ waits = <<>>
    /\ parses = 0
    /\ written = <<>>
    /\ data = <<>>
    /\ output = <<>>
    /\ stderr = <<>>
    /\ exc = "none"

otherVars == <<mode, doc, parsed, req, reqres, args>>

\* lines 157-166: offline mode
MainOffline ==
    /\ mode = "main"
    /\ pc = "start"
    /\ args.file.given
    /\ LET p == parse_emails(args.file.doc) IN
       /\ parses' = parses + 1
       /\ IF p.exc # "none"
          THEN /\ exc' = p.exc
               /\ pc' = "raised"
               /\ UNCHANGED <<output, stderr, written>>
          ELSE /\ output' = output \o Writes(p.info)
               /\ written' = Append(written, Writes(p.info))
               /\ stderr' = stderr \o OfflineDiag(p.info)
               /\ pc' = "done"
               /\ exc' = exc
    /\ UNCHANGED <<otherVars, posts, names, idx, start_time, now, starts, statuses,
                   waits, data>>

\* lines 168-189: online mode, the name list and the first baseline
MainResolve ==
    /\ mode = "main"
    /\ pc = "start"
    /\ ~args.file.given
    /\ LET r == ResolveNames(args.name, args.batch) IN
       IF r.exc # "none"
       THEN /\ exc' = r.exc
            /\ pc' = "raised"
            /\ UNCHANGED <<names, start_time, stderr>>
       ELSE /\ names' = r.names
            /\ start_time' = now - args.ratelimit
            /\ stderr' = stderr \o NoNamesDiag(r.names)
            /\ pc' = "loop"
            /\ exc' = exc
    /\ UNCHANGED <<otherVars, posts, idx, now, starts, statuses, waits, parses,
                   written, data, output>>

\* lines 191-194: the next name, and the wait for its turn; sleep() returns
\* after at least the time asked for
MainWait ==
    /\ mode = "main"
    /\ pc = "loop"
    /\ idx <= Len(names)
    /\ LET delay == Delay(start_time, args.ratelimit, now) IN
       IF delay > 0
       THEN \E over \in 0..MaxStep :
               /\ now + delay + over <= MaxTime
               /\ now' = now + delay + over
               /\ waits' = Append(waits, [name |-> idx, delay |-> delay,
                                          woke |-> now + delay + over])
       ELSE UNCHANGED <<now, waits>>
    /\ pc' = "stamp"
    /\ UNCHANGED <<otherVars, posts, names, idx, start_time, starts, statuses,
                   parses, written, data, output, stderr, exc>>

\* the loop is over
MainEnd ==
    /\ mode = "main"
    /\ pc = "loop"
    /\ idx > Len(names)
    /\ pc' = "done"
    /\ UNCHANGED <<otherVars, posts>>
    /\ UNCHANGED mainVars

\* line 195: start_time = time.time()
MainStamp ==
    /\ mode = "main"
    /\ pc = "stamp"
    /\ \E d \in 0..MaxStep :
          /\ now + d <= MaxTime
          /\ now' = now + d
          /\ start_time' = now + d
          /\ starts' = Append(starts, now + d)
    /\ pc' = "request"
    /\ UNCHANGED <<otherVars, posts, names, idx, statuses, waits, parses, written,
                   data, output, stderr, exc>>

\* line 196: data = do_request(name[0], name[1]); the server answers with
\* any status and body, after any time
MainRequest ==
    /\ mode = "main"
    /\ pc = "request"
    /\ \E status \in Statuses, body \in Bodies, d \in 0..MaxStep :
          LET r == do_request(names[idx][1], names[idx][2], <<>>, ALL,
                              [status |-> status, body |-> body])
          IN  /\ now + d <= MaxTime
              /\ now' = now + d
              /\ posts' = posts \o r.posted
              /\ statuses' = IF r.posted = <<>> THEN statuses
                             ELSE Append(statuses, status)
              /\ IF r.exc # "none"
                 THEN /\ exc' = r.exc
                      /\ pc' = "raised"
                      /\ data' = data
                 ELSE /\ data' = r.content
                      /\ pc' = "parse"
                      /\ exc' = exc
    /\ UNCHANGED <<otherVars, names, idx, start_time, starts, waits, parses,
                   written, output, stderr>>

\* lines 197-203: parse the response, write and flush each record, report a
\* name without records
MainParse ==
    /\ mode = "main"
    /\ pc = "parse"
    /\ \E d \in 0..MaxStep :
          /\ now + d <= MaxTime
          /\ now' = now + d
    /\ LET p == parse_emails(data) IN
       /\ parses' = parses + 1
       /\ IF p.exc # "none"
          THEN /\ exc' = p.exc
               /\ pc' = "raised"
               /\ UNCHANGED <<output, stderr, written, idx>>
          ELSE /\ output' = output \o Writes(p.info)
               /\ written' = Append(written, Writes(p.info))
               /\ stderr' = stderr \o NameDiag(p.info, names[idx])
               /\ idx' = idx + 1
               /\ pc' = "loop"
               /\ exc' = exc
    /\ UNCHANGED <<otherVars, posts, names, start_time, starts, statuses, waits,
                   data>>

Next ==
    \/ MainOffline
    \/ MainResolve
    \/ MainWait
    \/ MainEnd
    \/ MainStamp
    \/ MainRequest
    \/ MainParse

Spec == Init /\ [][Next]_vars

-----------------------------------------------------------------------------
(* Claims about main, checked under Spec *)

Online == mode = "main" /\ ~args.file.given
Offline == mode = "main" /\ args.file.given
Ended == pc \in {"done", "raised"}

RECURSIVE Flatten(_)
Flatten(ss) == IF ss = <<>> THEN <<>> ELSE Head(ss) \o Flatten(Tail(ss))

\* the (firstname, lastname) pairs of the forms sent
Queried == [i \in 1..Len(posts) |-> Pair(posts[i].firstname, posts[i].lastname)]

\* C3: in online mode the --type value is the 'filter' field of every query
\* sent during the run.
C3_TypeIsFilter ==
    Online => \A i \in 1..Len(posts) : posts[i].filter = args.type

\* C4: for every pair of consecutive queries the recorded start time of the
\* later one is at least --ratelimit after that of the earlier one; the
\* baseline is taken after the wait and before the request is sent.
C4_Pacing ==
    Online
    => /\ \A i \in 1..(Len(starts) - 1) : starts[i + 1] - starts[i] >= args.ratelimit
       /\ \A i \in 1..Len(waits) :
              waits[i].name <= Len(starts) => starts[waits[i].name] >= waits[i].woke
       /\ Len(posts) <= Len(starts)
       /\ pc = "request" => Len(starts) = Len(posts) + 1 /\ start_time = starts[Len(starts)]

\* two queries exactly --ratelimit apart, the second after a sleep, although
\* the first request and its parse took time
C4_Witness ==
    /\ Online
    /\ args.ratelimit = MaxRate
    /\ Len(posts) = 2
    /\ starts[2] - starts[1] = MaxRate
    /\ Len(waits) = 1
    /\ waits[1].delay < MaxRate

\* the diagnostics a run over the whole list writes, given the number of
\* records each response parsed to
RECURSIVE ZeroDiags(_, _)
ZeroDiags(ns, w) ==
    IF ns = <<>> \/ w = <<>> THEN <<>>
    ELSE NameDiag(Head(w), Head(ns)) \o ZeroDiags(Tail(ns), Tail(w))

\* C5: a zero-result lookup is non-fatal.  In online mode, when every
\* response has status 200, the run ends with every name of the resolved
\* list queried exactly once, in list order, and with a diagnostic for
\* exactly the names whose response parsed to zero records.
C5_EveryNameQueried ==
    (/\ Online
     /\ Ended
     /\ exc # "IndexError"
     /\ \A i \in 1..Len(statuses) : statuses[i] = 200)
    => /\ Queried = names
       /\ Len(written) = Len(names)
       /\ stderr = NoNamesDiag(names) \o ZeroDiags(names, written)

\* C6: a non-200 response aborts the run without retry.  When the query for
\* the k-th name is answered with another status, do_request raises
\* RequestFailure, the run is over with exactly k queries sent (the names
\* 1..k, once each), nothing is written for the k-th name, and the output
\* holds what was written for the names before it.
C6_BadStatusAborts ==
    Online
    => \A k \in 1..Len(statuses) :
           statuses[k] # 200
           => /\ pc = "raised"
              /\ exc = "RequestFailure"
              /\ k = Len(statuses)
              /\ Len(posts) = k
              /\ Queried = SubSeq(names, 1, k)
              /\ Len(written) = k - 1
              /\ parses = k - 1
              /\ output = Flatten(written)

\* the second query fails after the first one led to written records
C6_Witness ==
    /\ Online
    /\ Len(statuses) = 2
    /\ statuses[1] = 200
    /\ statuses[2] = 204
    /\ Len(names) = 3
    /\ output # <<>>
    /\ pc = "raised"

Lines(msg) == Cardinality({i \in 1..Len(msg) : msg[i] = "\n"})

\* C8: in offline mode the document is parsed once and the run ends without
\* any query or wait, whatever --name, --batch and --ratelimit are; a parse
\* with zero records writes exactly one diagnostic line and no output, a
\* parse with records writes no diagnostic.
C8_OfflineMode ==
    Offline
    => /\ posts = <<>> /\ waits = <<>> /\ starts = <<>>
       /\ pc \in {"start", "done", "raised"}
       /\ Ended
          => /\ parses = 1
             /\ LET p == parse_emails(args.file.doc) IN
                /\ (p.exc = "none" /\ p.info = <<>>)
                   => /\ output = <<>>
                      /\ Len(stderr) = 1
                      /\ Lines(stderr[1]) = 1
                      /\ stderr[1][Len(stderr[1])] = "\n"
                /\ (p.exc = "none" /\ p.info # <<>>)
                   => stderr = <<>> /\ output # <<>>

\* an offline run over a document without records, with a name, a batch and
\* a rate limit given
C8_Witness ==
    /\ Offline
    /\ pc = "done"
    /\ args.name.given
    /\ args.batch.given
    /\ args.ratelimit = MaxRate
    /\ Len(stderr) = 1
    /\ output = <<>>

====
